---------------------------- MODULE Spec2Model ----------------------------
(***************************************************************************)
(* A model of covid19_inference/dummy_data.py: the class DummyData, its    *)
(* constructor, generate() and the six stages generate() runs.             *)
(*                                                                         *)
(* Dates are day numbers (an integer; weekday = day % 7, 0 = Monday,       *)
(* 6 = Sunday), so (a - b).days is a - b.  Python numbers are exact        *)
(* rationals [num, den] in lowest terms.  The three transcendental         *)
(* functions of the source (exp, sin, the sampling of a distribution) are  *)
(* tabulated to one decimal / drawn from a hashed stream; every other      *)
(* operation is computed as the source computes it.                        *)
(***************************************************************************)
EXTENDS Integers, Sequences, FiniteSets, TLC

VARIABLES
    np_random,            \* numpy's global RandomState: "unseeded" or [seed, pos]
    nbinom_random_state,  \* scipy.stats.nbinom.random_state, same shape
    dd,                   \* the DummyData objects, by identity
    last                  \* the last method call made: who, what, arguments, outcome

vars == <<np_random, nbinom_random_state, dd, last>>

----------------------------------------------------------------------------
(* Bounds of the model.                                                    *)

\* The last day number a window or a change point may name (the first is -1).
MaxDay == 5
\* The longest series handed to _delay_cases on its own.
MaxLen == 3
\* The largest delay handed to _delay_cases on its own.
MaxDelay == 4
\* The largest S_initial, I_initial, R_initial handed to _generate_SIR on its own.
MaxPop == 2
\* The most time steps _generate_SIR is run for on its own.
MaxSteps == 3
\* How many times generate() is called on one object.
MaxCalls == 2

----------------------------------------------------------------------------
(* Exact rational arithmetic, standing for Python's numbers.               *)

Abs(i) == IF i < 0 THEN -i ELSE i

RECURSIVE Gcd(_, _)
Gcd(a, b) == IF b = 0 THEN a ELSE Gcd(b, a % b)

\* i / j for integers, j # 0, in lowest terms with a positive denominator.
Frac(i, j) ==
    LET g == Gcd(Abs(i), Abs(j))
        s == IF j < 0 THEN -1 ELSE 1
    IN  [num |-> s * (i \div g), den |-> Abs(j) \div g]

R(i) == [num |-> i, den |-> 1]

RAdd(a, b) ==
    LET g == Gcd(a.den, b.den)
    IN  Frac(a.num * (b.den \div g) + b.num * (a.den \div g), (a.den \div g) * b.den)

RNeg(a) == [num |-> -a.num, den |-> a.den]

RSub(a, b) == RAdd(a, RNeg(b))

RMul(a, b) ==
    LET g1 == Gcd(Abs(a.num), b.den)
        g2 == Gcd(Abs(b.num), a.den)
    IN  IF a.num = 0 \/ b.num = 0 THEN R(0)
        ELSE [num |-> (a.num \div g1) * (b.num \div g2),
              den |-> (a.den \div g2) * (b.den \div g1)]

RInv(a) == Frac(a.den, a.num)

RDiv(a, b) == RMul(a, RInv(b))

RSign(a) == IF a.num > 0 THEN 1 ELSE IF a.num < 0 THEN -1 ELSE 0

RLe(a, b) == RSign(RSub(a, b)) <= 0

RLt(a, b) == RSign(RSub(a, b)) < 0

RAbs(a) == [num |-> Abs(a.num), den |-> a.den]

\* int(x): truncation towards zero.
RTrunc(a) == IF a.num >= 0 THEN a.num \div a.den ELSE -((-a.num) \div a.den)

\* Elementwise operations on numpy arrays (sequences of numbers).
VAdd(u, v) == [i \in 1..Len(u) |-> RAdd(u[i], v[i])]

VScale(c, v) == [i \in 1..Len(v) |-> RMul(c, v[i])]

VDivide(v, c) == [i \in 1..Len(v) |-> RDiv(v[i], c)]

\* The element of a set of one: Only({ e(x) : x \in {v} }) is e(v), v being
\* computed once.
Only(S) == CHOOSE x \in S : TRUE

\* [v] * n: a Python list repeated; n <= 0 gives the empty list.
Repeat(v, n) == [i \in 1..(IF n > 0 THEN n ELSE 0) |-> v]


----------------------------------------------------------------------------
(* The pseudo-random streams.  A RandomState is [seed, pos]: the seed it   *)
(* was created with and how many numbers it has given out.  Rand hashes    *)
(* the two to one of RandMod equally likely outcomes, so that the same     *)
(* seed read at the same position gives the same number and a different    *)
(* seed or position in general another one.                                *)

\* The standard normal quantile at the middle of each outcome of the stream.
NormalQuantile == << Frac(-6, 5), Frac(-3, 10), Frac(3, 10), Frac(6, 5) >>

RandMod == Len(NormalQuantile)

RandomState(seed) == [kind |-> "RandomState", seed |-> seed, pos |-> 0]

Rand(st) == (st.seed * 3 + st.pos * (st.seed + 1) + st.pos * st.pos) % RandMod

Advance(st) == [st EXCEPT !.pos = @ + 1]

\* A draw of the stream, uniform on [0, 1).
Uniform01(st) == Frac(Rand(st), RandMod)

\* np.random.randint(low, high): an integer of [low, high).
RandInt(low, high, st) == low + Rand(st) * ((high - low) \div RandMod)

\* np.random.uniform(low, high).
RandUniform(low, high, st) == RAdd(low, RMul(RSub(high, low), Uniform01(st)))

\* np.random.normal(loc, scale).
RandNormal(loc, scale, st) == RAdd(loc, RMul(scale, NormalQuantile[Rand(st) + 1]))

\* halfcauchy.rvs(loc): loc plus the absolute value of a Cauchy draw, whose
\* quantile at the middle of each outcome is tan(pi * u / 2).
HalfCauchyQuantile == << Frac(1, 5), Frac(7, 10), Frac(3, 2), R(5) >>

HalfCauchyRvs(loc, st) == RAdd(loc, HalfCauchyQuantile[Rand(st) + 1])

\* nbinom.rvs(n, p): a count whose mean is n (1 - p) / p; the draw spreads
\* around the mean with the stream's number.
NbinomRvs(n, p, st) ==
    LET mean == RDiv(RMul(n, RSub(R(1), p)), p)
        k    == RTrunc(mean) + Rand(st) - 1
    IN  R(IF k < 0 THEN 0 ELSE k)

----------------------------------------------------------------------------
(* exp and |sin|, tabulated to one decimal.                                *)

\* exp(0.4 j) in tenths, for j = -12 .. 12.
ExpTable ==
    << 0, 0, 0, 0, 0, 1, 1, 1, 2, 3, 4, 7,
       10,
       15, 22, 33, 50, 74, 110, 164, 245, 366, 546, 815, 1215 >>

\* np.exp(a), for the arguments the source gives it: multiples of 0.4.
NpExp(a) ==
    LET j == RTrunc(RMul(a, Frac(5, 2)))
        c == IF j < -12 THEN -12 ELSE IF j > 12 THEN 12 ELSE j
    IN  Frac(ExpTable[c + 13], 10)

\* |sin(pi/7 t - Phi/2)| in tenths: row Phi = 0 .. 6, column t % 7.
AbsSinTable ==
    << << 0, 4, 8, 10, 10, 8, 4 >>,
       << 5, 1, 4, 7, 10, 10, 8 >>,
       << 8, 5, 1, 3, 7, 9, 10 >>,
       << 10, 9, 6, 2, 3, 7, 9 >>,
       << 9, 10, 9, 6, 2, 2, 6 >>,
       << 6, 9, 10, 9, 6, 3, 2 >>,
       << 1, 6, 9, 10, 9, 7, 3 >> >>

\* np.abs(np.sin(np.pi/7*t - 1/2*Phi)), for an offset Phi of 0 .. 6 days;
\* |sin| has period 7 in t.
AbsSin(t, Phi) == Frac(AbsSinTable[(Phi % 7) + 1][(t % 7) + 1], 10)

----------------------------------------------------------------------------
(* Values of the model.                                                    *)

\* An attribute that was never assigned, and one that was.
Unset == [kind |-> "unset"]

Value(v) == [kind |-> "value", val |-> v]

\* What a call ends with: a return value or an exception.
Return(v) == [kind |-> "return", val |-> v]

Raise(exc) == [kind |-> "raise", exc |-> exc]

NoCall == [kind |-> "none"]

\* The seed argument: None, its default, or a number.
None == [kind |-> "None"]

\* date.weekday(): day 0 is 2020-03-10, the docstring's data_begin, a Tuesday.
Weekday(date) == (date + 1) % 7

\* pd.date_range(begin, end): every day from begin to end, both included.
DateRange(begin, end) == [i \in 1..(IF end >= begin THEN end - begin + 1 ELSE 0) |-> begin + i - 1]

\* A change point is [date, lambda]: <<date, rate>>.
CpDate(cp) == cp[1]

CpRate(cp) == cp[2]

\* list.sort(key=lambda x: x[0]): an insertion of each element after the
\* elements whose date is not later, so that equal dates keep their order.
RECURSIVE InsertByDate(_, _)
InsertByDate(sorted, cp) ==
    IF sorted = <<>> THEN <<cp>>
    ELSE IF CpDate(sorted[Len(sorted)]) <= CpDate(cp) THEN Append(sorted, cp)
    ELSE Append(InsertByDate(SubSeq(sorted, 1, Len(sorted) - 1), cp), sorted[Len(sorted)])

RECURSIVE SortByDate(_)
SortByDate(cps) ==
    IF cps = <<>> THEN <<>>
    ELSE InsertByDate(SortByDate(SubSeq(cps, 1, Len(cps) - 1)), cps[Len(cps)])

----------------------------------------------------------------------------
(* DummyData._update_initial                                               *)

\* _generate_change_points_we: one change point per Sunday of the window,
\* its date moved by int(normal(0, 3)) days, its rate uniform on [0, 1).
\* Gives [cps, st]: the list and the stream after the draws.
RECURSIVE GenerateChangePointsWe(_, _, _, _)
GenerateChangePointsWe(dates, i, cps, st) ==
    IF i > Len(dates) THEN [cps |-> cps, st |-> st]
    ELSE IF Weekday(dates[i]) = 6
         THEN LET date_index  == RTrunc(RandNormal(R(0), R(3), st))
                  date_random == dates[i] + date_index
                  lambda_t    == RandUniform(R(0), R(1), Advance(st))
              IN  GenerateChangePointsWe(dates, i + 1,
                      Append(cps, <<date_random, lambda_t>>), Advance(Advance(st)))
         ELSE GenerateChangePointsWe(dates, i + 1, cps, st)

\* The offset of the first Sunday on or after data_begin.
RECURSIVE OffsetSunday(_, _)
OffsetSunday(d, offset) ==
    IF Weekday(d) # 6 THEN OffsetSunday(d + 1, offset + 1) ELSE offset

Has(initial_values, key) == key \in DOMAIN initial_values

\* self._update_initial(**initial_values), reading the global stream st.
\* Gives [initials, st].
UpdateInitial(self, initial_values, st) ==
    LET S   == IF Has(initial_values, "S_initial")
               THEN [v |-> initial_values["S_initial"], st |-> st]
               ELSE [v |-> R(RandInt(5000000, 10000000, st)), st |-> Advance(st)]
        I   == IF Has(initial_values, "I_initial")
               THEN [v |-> initial_values["I_initial"], st |-> S.st]
               ELSE [v |-> R(RTrunc(HalfCauchyRvs(R(3), S.st))), st |-> Advance(S.st)]
        Rc  == IF Has(initial_values, "R_initial")
               THEN initial_values["R_initial"] ELSE R(0)
        lam == IF Has(initial_values, "lambda_initial")
               THEN [v |-> initial_values["lambda_initial"], st |-> I.st]
               ELSE [v |-> RandUniform(R(0), R(1), I.st), st |-> Advance(I.st)]
        cp  == IF Has(initial_values, "change_points")
               THEN [cps |-> initial_values["change_points"], st |-> lam.st]
               ELSE GenerateChangePointsWe(
                        DateRange(self.data_begin, self.data_end), 1, <<>>, lam.st)
        nf  == IF Has(initial_values, "noise_factor")
               THEN initial_values["noise_factor"] ELSE Frac(1, 100000)
        os  == IF Has(initial_values, "offset_sunday")
               THEN initial_values["offset_sunday"] ELSE OffsetSunday(self.data_begin, 0)
        wf  == IF Has(initial_values, "weekend_factor")
               THEN [v |-> initial_values["weekend_factor"], st |-> cp.st]
               ELSE [v |-> RandUniform(Frac(1, 10), Frac(1, 2), cp.st), st |-> Advance(cp.st)]
        cd  == IF Has(initial_values, "case_delay")
               THEN initial_values["case_delay"] ELSE 6
    IN  [initials |->
            [S_initial |-> S.v, I_initial |-> I.v, R_initial |-> Rc,
             lambda_initial |-> lam.v, change_points |-> cp.cps,
             noise_factor |-> nf, offset_sunday |-> os,
             weekend_factor |-> wf.v, case_delay |-> cd],
         st |-> wf.st]

----------------------------------------------------------------------------
(* DummyData._change_points_to_lambda_t                                    *)

\* logistics_from_cps(x, cp1_x, cp1_y, cp2_x, cp2_y), x's being day counts.
LogisticsFromCps(x, cp1_x, cp1_y, cp2_x, cp2_y) ==
    LET L   == RSub(cp2_y, cp1_y)
        C   == cp1_y
        x_0 == RAdd(RDiv(R(Abs(cp1_x - cp2_x)), R(2)), R(cp1_x))
    IN  RAdd(RDiv(L, RAdd(R(1), NpExp(RMul(Frac(-4, 5), RSub(R(x), x_0))))), C)

\* helper_lambda_between(cp1, cp2): one value per day of range(delta_days).
HelperLambdaBetween(cp1, cp2) ==
    LET delta_days == Abs(CpDate(cp1) - CpDate(cp2))
    IN  [i \in 1..delta_days |->
            LogisticsFromCps(i - 1, 0, CpRate(cp1), delta_days, CpRate(cp2))]

\* The loop over enumerate(change_points): the segment from each change
\* point to the next, the last one having none.
RECURSIVE SegmentsFrom(_, _, _)
SegmentsFrom(change_points, i, lambda_t) ==
    IF i > Len(change_points) THEN lambda_t
    ELSE IF i = Len(change_points) THEN SegmentsFrom(change_points, i + 1, lambda_t)
    ELSE SegmentsFrom(change_points, i + 1,
             lambda_t \o HelperLambdaBetween(change_points[i], change_points[i + 1]))

\* self._change_points_to_lambda_t().  The list of self.initials is sorted
\* in place before anything is read from it; change_points[0] of an empty
\* list raises IndexError.  Gives [self, out].
ChangePointsToLambdaT(self) ==
    LET change_points == SortByDate(self.initials.change_points)
        sorted == [self EXCEPT !.initials.change_points = change_points]
        n      == Len(change_points)
    IN  IF n = 0 THEN [self |-> sorted, out |-> Raise("IndexError")]
        ELSE LET first == HelperLambdaBetween(
                              <<self.data_begin, self.initials.lambda_initial>>,
                              change_points[1])
                 mid   == SegmentsFrom(change_points, 1, first)
                 tail  == Repeat(CpRate(change_points[n]),
                              (self.data_end - CpDate(change_points[n])) + 1)
             IN  [self |-> sorted, out |-> Return(mid \o tail)]

----------------------------------------------------------------------------
(* DummyData._generate_SIR                                                 *)

\* data_len were it to count both ends of the window.
DataLenInclusive(self) == self.data_end - self.data_begin + 1

\* self.data_len
DataLen(self) == self.data_end - self.data_begin

\* f were the recovered people not to be added to R.
SIRfLosingRecovered(N, mu, t, y, lambda_t) ==
    VAdd(VDivide(VScale(y[2], VScale(y[1],
             VScale(lambda_t, << R(-1), R(1), R(0) >>))), N),
         << R(0), RMul(RNeg(mu), y[2]), R(0) >>)

\* f(t, y, lambda_t): the SIR model as a vector; N and mu are the closure's.
SIRf(N, mu, t, y, lambda_t) ==
    VAdd(VDivide(VScale(y[2], VScale(y[1],
             VScale(lambda_t, << R(-1), R(1), R(0) >>))), N),
         << R(0), RMul(RNeg(mu), y[2]), RMul(mu, y[2]) >>)

\* RK4(dt, t_n, y_n, lambda_t): one Runge-Kutta 4 time step.
RK4(N, mu, dt, t_n, y_n, lambda_t) ==
    LET k_1 == SIRf(N, mu, R(t_n), y_n, lambda_t)
        k_2 == SIRf(N, mu, RAdd(R(t_n), Frac(dt, 2)),
                    VAdd(y_n, VDivide(VScale(R(dt), k_1), R(2))), lambda_t)
        k_3 == SIRf(N, mu, RAdd(R(t_n), Frac(dt, 2)),
                    VAdd(y_n, VDivide(VScale(R(dt), k_2), R(2))), lambda_t)
        k_4 == SIRf(N, mu, R(t_n + dt), VAdd(y_n, VScale(R(dt), k_3)), lambda_t)
    IN  VAdd(y_n, VScale(Frac(dt, 6),
            VAdd(VAdd(VAdd(k_1, VScale(R(2), k_2)), VScale(R(2), k_3)), k_4)))

\* The loop "for i in range(time_range)" from step i on (i counts from 0);
\* self.lambda_t[i] past the end of lambda_t raises IndexError.
RECURSIVE Timesteps(_, _, _, _, _, _)
Timesteps(self, N, time_range, i, t_n, y_n) ==
    IF i >= time_range THEN Return([t_n |-> t_n, y_n |-> y_n])
    ELSE IF i + 1 > Len(self.lambda_t.val) THEN Raise("IndexError")
    ELSE Timesteps(self, N, time_range, i + 1,
             Append(t_n, t_n[i + 1] + 1),
             Append(y_n, RK4(N, self.mu, 1, t_n[i + 1], y_n[i + 1], self.lambda_t.val[i + 1])))

\* self._generate_SIR(): t_n and y_n, y_n[k] = <<S, I, R>>.
GenerateSIR(self) ==
    LET time_range == DataLen(self)
        N == RAdd(RAdd(self.initials.S_initial, self.initials.I_initial),
                  self.initials.R_initial)
    IN  Timesteps(self, N, time_range, 0, <<0>>,
            << <<self.initials.S_initial, self.initials.I_initial,
                 self.initials.R_initial>> >>)

----------------------------------------------------------------------------
(* The observable: _calc_new_cases_raw, _week_modulation, _delay_cases,    *)
(* _random_noise.                                                          *)

\* self._calc_new_cases_raw(I)
CalcNewCasesRaw(I) ==
    [i \in 1..Len(I) |->
        IF i = 1 THEN R(0)
        ELSE LET value == RSub(I[i], I[i - 1])
             IN  IF RSign(value) > 0 THEN value ELSE R(0)]

\* self._week_modulation(t_n, new_cases_raw)
WeekModulation(self, t_n, new_cases_raw) ==
    LET f(t) == RMul(self.initials.weekend_factor,
                     RSub(R(1), AbsSin(t, self.initials.offset_sunday)))
    IN  [i \in 1..Len(t_n) |-> RMul(new_cases_raw[i], RSub(R(1), f(t_n[i])))]

\* Series.shift(periods, fill_value): the values move periods places towards
\* the end (towards the start for a negative periods), the length is kept
\* and the places left free take fill_value.
Shift(series, periods, fill_value) ==
    [i \in 1..Len(series) |->
        IF i - periods >= 1 /\ i - periods <= Len(series)
        THEN series[i - periods] ELSE fill_value]

\* _delay_cases were it to shift towards the start of the series.
DelayCasesBackwards(self, new_cases) == Shift(new_cases, -self.initials.case_delay, R(0))

\* self._delay_cases(new_cases)
DelayCases(self, new_cases) == Shift(new_cases, self.initials.case_delay, R(0))

\* convert(mu, alpha) of _random_noise: <<r, 1 - p>>.
Convert(mu, alpha) ==
    LET r == RInv(alpha)
        p == RDiv(mu, RAdd(mu, r))
    IN  << r, RSub(R(1), p) >>

\* The loop of _random_noise from position i on: a zero is left alone,
\* every other entry is replaced by a draw.  Gives [array, st].
RECURSIVE NoiseLoop(_, _, _, _)
NoiseLoop(self, array, i, st) ==
    IF i > Len(array) THEN [array |-> array, st |-> st]
    ELSE IF array[i] = R(0) THEN NoiseLoop(self, array, i + 1, st)
    ELSE LET rp == Convert(array[i], self.initials.noise_factor)
         IN  NoiseLoop(self, [array EXCEPT ![i] = NbinomRvs(rp[1], rp[2], st)],
                       i + 1, Advance(st))

\* _random_noise were it to seed nbinom's stream once only and to draw on
\* from where the call before left it.
RandomNoiseSeededOnce(self, values, random_state) ==
    NoiseLoop(self, values, 1,
        IF random_state.kind = "np.random" THEN RandomState(self.seed)
        ELSE random_state)

\* self._random_noise(df), random_state being nbinom.random_state at the
\* call: it is replaced by a stream created anew from self.seed.
RandomNoise(self, values, random_state) ==
    NoiseLoop(self, values, 1, RandomState(self.seed))

----------------------------------------------------------------------------
(* DummyData.generate and DummyData.__init__                               *)

\* A dataframe: the date index and the two columns.
DataFrame(date, new_cases, lambda_t) ==
    [date |-> date, new_cases |-> new_cases, lambda_t |-> lambda_t]

\* Steps 5 and 6 of generate(): the dataframe, the delay, the noise.
\* Assigning a column whose length is not the index's raises ValueError.
GenerateFrame(self, random_state, sir, new_cases) ==
    Only({ IF Len(new_cases) # Len(date) \/ Len(self.lambda_t.val) # Len(date)
           THEN [self |-> self, out |-> Raise("ValueError"),
                 random_state |-> random_state, sir |-> sir]
           ELSE IF self.add_noise
           THEN Only({ [self |-> self,
                        out |-> Return(DataFrame(date, noisy.array, self.lambda_t.val)),
                        random_state |-> noisy.st, sir |-> sir]
                       : noisy \in { RandomNoise(self, shifted, random_state) } })
           ELSE [self |-> self,
                 out |-> Return(DataFrame(date, shifted, self.lambda_t.val)),
                 random_state |-> random_state, sir |-> sir]
         : date \in { DateRange(self.data_begin, self.data_end) },
           shifted \in { DelayCases(self, new_cases) } })

\* Steps 2 to 4 of generate(): the SIR model, the raw new cases, the week.
GenerateCases(self, random_state) ==
    Only({ IF sir.kind = "raise"
           THEN [self |-> self, out |-> sir, random_state |-> random_state, sir |-> sir]
           ELSE GenerateFrame(self, random_state, sir,
                    WeekModulation(self, sir.val.t_n,
                        CalcNewCasesRaw([k \in 1..Len(sir.val.y_n) |-> sir.val.y_n[k][2]])))
         : sir \in { GenerateSIR(self) } })

\* self.generate(), nbinom.random_state being random_state at the call.
\* Gives [self, out, random_state, sir]: the object and nbinom's stream after
\* the call, what the call ended with, and what _generate_SIR ended with.
\* An exception of step 1 leaves self.lambda_t as it was.  No statement of
\* generate assigns self.data.
GenerateCall(self, random_state) ==
    Only({ IF cp.out.kind = "raise"
           THEN [self |-> cp.self, out |-> cp.out, random_state |-> random_state,
                 sir |-> NoCall]
           ELSE GenerateCases([cp.self EXCEPT !.lambda_t = Value(cp.out.val)],
                              random_state)
         : cp \in { ChangePointsToLambdaT(self) } })

\* The seed of a new object: the one given or, without one, the result of
\* np.randint(1000000, 9999999).  numpy has no attribute randint (the
\* function is np.random.randint), so the lookup raises AttributeError.
ChooseSeed(seed) ==
    IF seed.kind # "None" THEN Return(seed.val) ELSE Raise("AttributeError")

\* The attributes of an object whose construction has run _update_initial,
\* with the model's bookkeeping: the arguments it was built with, the
\* initials as built, the calls of generate() so far and how the last two
\* ended.
NewObject(args, seed, initials) ==
    [status |-> "alive", args |-> args,
     seed |-> seed, add_noise |-> args.noise,
     data_begin |-> args.data_begin, data_end |-> args.data_end,
     mu |-> args.mu, lambda_t |-> Unset, data |-> Unset,
     initials |-> initials, built |-> initials,
     calls |-> 0, ret |-> NoCall, prev |-> NoCall]

\* DummyData(data_begin, data_end, mu, noise, auto_generate, seed,
\* **initial_values), np.random's and nbinom's streams being st and
\* random_state at the call.  Gives [self, st, random_state, gen]: the new
\* object (or what is left of a construction that raised), the two streams
\* after the call, and generate()'s end when auto_generate ran it.
Construct(args, st, random_state) ==
    Only({ IF chosen.kind = "raise"
           THEN [self |-> [status |-> "raised", args |-> args, exc |-> chosen.exc],
                 st |-> st, random_state |-> random_state, gen |-> NoCall]
           ELSE Only({
               IF ~args.auto_generate
               THEN [self |-> NewObject(args, chosen.val, upd.initials), st |-> upd.st,
                     random_state |-> random_state, gen |-> NoCall]
               ELSE Only({
                   IF gen.out.kind = "raise"
                   THEN [self |-> [status |-> "raised", args |-> args,
                                   exc |-> gen.out.exc],
                         st |-> upd.st, random_state |-> gen.random_state,
                         gen |-> gen.out]
                   ELSE [self |-> [gen.self EXCEPT !.calls = 1, !.ret = gen.out],
                         st |-> upd.st, random_state |-> gen.random_state,
                         gen |-> gen.out]
                 : gen \in { GenerateCall(NewObject(args, chosen.val, upd.initials),
                                          random_state) } })
             : upd \in { UpdateInitial(args, args.initial_values,
                                       RandomState(chosen.val)) } })
         : chosen \in { ChooseSeed(args.seed) } })

----------------------------------------------------------------------------
(* The program: objects are built and generate() is called on them.        *)

Obj == {1, 2}

Seeds == {None, Value(1), Value(2)}

\* Windows: with and without a Sunday (day 5), of three and of six days up
\* to the last day, and one that ends before it begins.
Windows == { <<0, 2>>, <<MaxDay - 5, MaxDay>>, <<MaxDay - 2, MaxDay>>, <<3, 1>> }

\* Recovery rates, inside and outside the region where a Runge-Kutta 4 step
\* of dI/dt = -mu I shrinks I.
Mus == { R(1), R(3) }

\* The keyword arguments.  Exact integration stays within TLC's integers
\* when S I = 0 or every rate is 0, which every one of these meets.
InitialValues(data_begin, data_end) ==
    IF data_end < data_begin
    THEN { [S_initial |-> R(0)] }
    ELSE { [S_initial |-> R(0)],
           [I_initial |-> R(0)],
           [S_initial |-> R(0), I_initial |-> R(1), R_initial |-> R(1),
            change_points |-> << <<data_end, Frac(1, 2)>>, <<data_begin + 1, R(1)>> >>,
            case_delay |-> 1, weekend_factor |-> Frac(1, 2)],
           [S_initial |-> R(2), I_initial |-> R(1), lambda_initial |-> R(0),
            change_points |-> << <<data_begin + 1, R(0)>> >>,
            case_delay |-> 0, noise_factor |-> Frac(1, 2)],
           [S_initial |-> R(0), I_initial |-> R(1), change_points |-> <<>>],
           [S_initial |-> R(0), I_initial |-> R(1),
            change_points |-> << <<data_begin - 1, Frac(1, 2)>> >>],
           [S_initial |-> R(0), I_initial |-> R(1),
            change_points |-> << <<data_end + 2, Frac(1, 2)>> >>] }

Args ==
    { [data_begin |-> w[1], data_end |-> w[2], mu |-> mu, noise |-> noise,
       auto_generate |-> auto, seed |-> seed, initial_values |-> iv] :
        w \in Windows, mu \in Mus, noise \in BOOLEAN, auto \in BOOLEAN,
        seed \in Seeds, iv \in UNION { InitialValues(x[1], x[2]) : x \in Windows } }

\* The arguments the model builds objects with.  The second object repeats
\* the first one's experiment: same window, mu and keyword arguments, any
\* seed and noise flag.
ArgsFor(o) ==
    IF o = 1
    THEN { a \in Args : a.initial_values \in InitialValues(a.data_begin, a.data_end) }
    ELSE IF dd[1].status = "absent" THEN {}
    ELSE { [dd[1].args EXCEPT !.seed = seed, !.noise = noise, !.auto_generate = FALSE] :
             seed \in Seeds \ {None}, noise \in BOOLEAN }

Absent == [status |-> "absent"]

\* numpy seeds its global stream from the system at import: any stream.
Init ==
    /\ np_random \in { RandomState(7), RandomState(8) }
    /\ nbinom_random_state = [kind |-> "np.random"]
    /\ dd = [o \in Obj |-> Absent]
    /\ last = NoCall

\* o = DummyData(...)
New(o) ==
    /\ dd[o].status = "absent"
    /\ \E args \in ArgsFor(o) :
         \E c \in { Construct(args, np_random, nbinom_random_state) } :
             /\ dd' = [dd EXCEPT ![o] = c.self]
             /\ np_random' = c.st
             /\ nbinom_random_state' = c.random_state
             /\ last' = [kind |-> "__init__", obj |-> o, out |-> c.gen]

\* o.generate()
Generate(o) ==
    /\ dd[o].status = "alive"
    /\ dd[o].calls < MaxCalls
    /\ \E g \in { GenerateCall(dd[o], nbinom_random_state) } :
           /\ dd' = [dd EXCEPT ![o] = [g.self EXCEPT !.calls = @ + 1,
                                                     !.prev = dd[o].ret,
                                                     !.ret = g.out]]
           /\ nbinom_random_state' = g.random_state
           /\ last' = [kind |-> "generate", obj |-> o, out |-> g.out, sir |-> g.sir]
    /\ UNCHANGED np_random

Next == \E o \in Obj : New(o) \/ Generate(o)

Spec == Init /\ [][Next]_vars

----------------------------------------------------------------------------
(* The claims about objects and generate().                                *)

Alive(o) == dd[o].status = "alive"

\* generate() has run on o and has returned a dataframe.
Returned(o) == Alive(o) /\ dd[o].ret.kind = "return"

\* The number of days of the window, both ends included.
WindowDays(self) == self.data_end - self.data_begin + 1

InWindow(self, cps) ==
    \A k \in 1..Len(cps) :
        self.data_begin <= CpDate(cps[k]) /\ CpDate(cps[k]) <= self.data_end

\* C1.  Whatever the dates of a non-empty list of change points, the rate
\* sequence _change_points_to_lambda_t returns has one entry per day of
\* the window data_begin .. data_end.
C1_RateSequenceCoversWindow ==
    \A o \in Obj :
        (/\ Alive(o)
         /\ dd[o].data_begin <= dd[o].data_end
         /\ dd[o].initials.change_points # <<>>
         /\ dd[o].lambda_t.kind = "value")
        => Len(dd[o].lambda_t.val) = WindowDays(dd[o])

\* C2.  With an empty list of change points, _change_points_to_lambda_t
\* returns a rate sequence equal to lambda_initial on every day of the
\* window.
C2_NoChangePointsHoldLambdaInitial ==
    \A o \in Obj :
        (/\ Alive(o)
         /\ dd[o].calls > 0
         /\ dd[o].initials.change_points = <<>>)
        => /\ dd[o].lambda_t.kind = "value"
           /\ dd[o].lambda_t.val =
                  Repeat(dd[o].initials.lambda_initial, WindowDays(dd[o]))

\* C3.  A construction without a seed completes normally: the object exists
\* and holds the seed that was chosen.
C3_ConstructionWithoutSeedCompletes ==
    \A o \in Obj :
        (/\ dd[o].status # "absent"
         /\ dd[o].args.seed.kind = "None"
         /\ ~dd[o].args.auto_generate)
        => Alive(o)

\* The inputs of generate() that the caller chooses.
SameInputs(a, b) ==
    /\ a.seed = b.seed
    /\ a.data_begin = b.data_begin /\ a.data_end = b.data_end
    /\ a.mu = b.mu /\ a.noise = b.noise
    /\ a.initial_values = b.initial_values

SameArrays(x, y) ==
    /\ x.kind = "return" /\ y.kind = "return"
    /\ x.val.new_cases = y.val.new_cases
    /\ x.val.lambda_t = y.val.lambda_t

\* C4.  Two calls of generate() with the same seed and the same inputs
\* return the same new_cases and lambda_t: two successive calls on one
\* object, and calls on two objects built apart; with and without noise.
C4_SameSeedSameArrays ==
    /\ \A o \in Obj :
           (Alive(o) /\ dd[o].prev.kind = "return")
           => SameArrays(dd[o].prev, dd[o].ret)
    /\ \A o1, o2 \in Obj :
           (Returned(o1) /\ Alive(o2) /\ dd[o2].calls > 0
            /\ SameInputs(dd[o1].args, dd[o2].args))
           => SameArrays(dd[o1].ret, dd[o2].ret)

\* Two objects built apart with one seed and noise, generate() called twice
\* on the first and once on the second, noise having been drawn.
C4_Witness ==
    /\ Returned(1) /\ Returned(2)
    /\ SameInputs(dd[1].args, dd[2].args)
    /\ dd[1].add_noise
    /\ dd[1].prev.kind = "return"
    /\ nbinom_random_state.kind # "np.random"
    /\ \E k \in 1..Len(dd[1].ret.val.new_cases) :
           dd[1].ret.val.new_cases[k] # R(0)

\* C6.  No object exists whose window ends before it begins: the
\* construction rejects it.
C6_InvertedWindowRejected ==
    \A o \in Obj : Alive(o) => dd[o].data_begin <= dd[o].data_end

\* C7.  generate() leaves self.initials as the construction built it, the
\* order of the change points included.
C7_GenerateLeavesInitials ==
    \A o \in Obj : Alive(o) => dd[o].initials = dd[o].built

\* C8.  After generate() has returned, the attribute data holds the
\* dataframe it returned.
C8_DataHoldsTheDataset ==
    \A o \in Obj :
        Returned(o)
        => dd[o].data.kind = "value" /\ dd[o].data.val = dd[o].ret.val

\* C9 as claimed.  The trajectory of _generate_SIR is one longer than the
\* rate sequence: every rate drives one step.
C9_TrajectoryOneLongerThanRates ==
    (/\ last.kind = "generate"
     /\ last.sir.kind = "return"
     /\ InWindow(dd[last.obj], dd[last.obj].initials.change_points))
    => Len(last.sir.val.y_n) = Len(dd[last.obj].lambda_t.val) + 1

\* C9 as amended.  The trajectory of _generate_SIR has one state per day of
\* the window, (data_end - data_begin).days + 1, which for change points
\* inside the window is the length of the rate sequence, not one more: the
\* last rate drives no step.
C9_TrajectoryAsLongAsRates ==
    (/\ last.kind = "generate"
     /\ last.sir.kind = "return"
     /\ dd[last.obj].data_begin <= dd[last.obj].data_end)
    => /\ Len(last.sir.val.y_n) = WindowDays(dd[last.obj])
       /\ Len(last.sir.val.t_n) = Len(last.sir.val.y_n)
       /\ InWindow(dd[last.obj], dd[last.obj].initials.change_points)
          => Len(last.sir.val.y_n) = Len(dd[last.obj].lambda_t.val)

\* _generate_SIR has returned for a window of several days with two change
\* points inside it.
C9_Witness ==
    /\ last.kind = "generate"
    /\ last.sir.kind = "return"
    /\ Len(dd[last.obj].initials.change_points) = 2
    /\ InWindow(dd[last.obj], dd[last.obj].initials.change_points)
    /\ Len(dd[last.obj].lambda_t.val) >= 3

----------------------------------------------------------------------------
(* _delay_cases on its own: an object built with any case_delay, and the   *)
(* method called on any short series.                                      *)

\* The series: every sequence of at most MaxLen of these values.
SeriesValues == { R(0), R(1), R(2) }

SeriesSet == UNION { [1..n -> SeriesValues] : n \in 0..MaxLen }

DelayArgs(d) ==
    [data_begin |-> 0, data_end |-> 2, mu |-> R(1), noise |-> FALSE,
     auto_generate |-> FALSE, seed |-> Value(1),
     initial_values |-> [S_initial |-> R(0), case_delay |-> d]]

InitDelay ==
    /\ \E d \in 0..MaxDelay :
         \E c \in { Construct(DelayArgs(d), RandomState(7), [kind |-> "np.random"]) } :
             /\ dd = [o \in Obj |-> IF o = 1 THEN c.self ELSE Absent]
             /\ np_random = c.st
             /\ nbinom_random_state = c.random_state
    /\ last = NoCall

\* o._delay_cases(new_cases)
CallDelayCases(o) ==
    /\ Alive(o)
    /\ \E new_cases \in SeriesSet :
         last' = [kind |-> "_delay_cases", obj |-> o, new_cases |-> new_cases,
                  out |-> Return(DelayCases(dd[o], new_cases))]
    /\ UNCHANGED <<np_random, nbinom_random_state, dd>>

NextDelay == \E o \in Obj : CallDelayCases(o)

SpecDelay == InitDelay /\ [][NextDelay]_vars

Min(a, b) == IF a < b THEN a ELSE b

\* C5.  For a series of length n and a delay d >= 0, _delay_cases returns a
\* series of length n whose first min(d, n) entries are 0 and whose entry
\* at i + d is the input's entry at i; for d = 0 it returns the input.
C5_DelayShiftsForward ==
    last.kind = "_delay_cases" =>
        LET d   == dd[last.obj].initials.case_delay
            in  == last.new_cases
            out == last.out.val
            n   == Len(in)
        IN  /\ Len(out) = n
            /\ \A i \in 1..Min(d, n) : out[i] = R(0)
            /\ \A i \in 1..n : i + d <= n => out[i + d] = in[i]
            /\ d = 0 => out = in

\* A delay shorter than the series, whose first entry is not 0 and moves.
C5_Witness ==
    /\ last.kind = "_delay_cases"
    /\ dd[last.obj].initials.case_delay >= 1
    /\ dd[last.obj].initials.case_delay < Len(last.new_cases)
    /\ last.new_cases[1] # R(0)
    /\ last.out.val[1] = R(0)

----------------------------------------------------------------------------
(* _generate_SIR on its own: an object with any small population, any of   *)
(* these recovery rates and any rate sequence assigned to self.lambda_t.   *)

SIRMus == { R(1), R(2), R(3) }

SIRRates == { R(0), R(1), R(2) }

AllZero(rates) == \A k \in 1..Len(rates) : rates[k] = R(0)

\* The integration stays within TLC's integers when the product S I plays
\* no part (no rate, nobody susceptible or nobody infected), and for one
\* step of a population of two, one susceptible and one infected.
Tractable(S, I, Rc, steps, rates) ==
    \/ S * I = 0
    \/ AllZero(rates)
    \/ steps = 1 /\ S = 1 /\ I = 1 /\ Rc = 0

SIRArgs(S, I, Rc, mu, steps) ==
    [data_begin |-> 0, data_end |-> steps, mu |-> mu, noise |-> FALSE,
     auto_generate |-> FALSE, seed |-> Value(1),
     initial_values |-> [S_initial |-> R(S), I_initial |-> R(I), R_initial |-> R(Rc)]]

InitSIR ==
    /\ \E S, I, Rc \in 0..MaxPop, mu \in SIRMus, steps \in 1..MaxSteps :
         \E rates \in [1..(steps + 1) -> SIRRates] :
             /\ S + I + Rc > 0
             /\ Tractable(S, I, Rc, steps, rates)
             /\ \E c \in { Construct(SIRArgs(S, I, Rc, mu, steps), RandomState(7),
                                     [kind |-> "np.random"]) } :
                    /\ dd = [o \in Obj |->
                               IF o = 1 THEN [c.self EXCEPT !.lambda_t = Value(rates)]
                               ELSE Absent]
                    /\ np_random = c.st
                    /\ nbinom_random_state = c.random_state
    /\ last = NoCall

\* o._generate_SIR()
CallGenerateSIR(o) ==
    /\ Alive(o)
    /\ last.kind = "none"
    /\ last' = [kind |-> "_generate_SIR", obj |-> o, out |-> GenerateSIR(dd[o])]
    /\ UNCHANGED <<np_random, nbinom_random_state, dd>>

NextSIR == \E o \in Obj : CallGenerateSIR(o)

SpecSIR == InitSIR /\ [][NextSIR]_vars

\* S stays at S_initial and I never grows along the trajectory y_n.
SConstantINonIncreasing(self, y_n) ==
    /\ \A k \in 1..Len(y_n) : y_n[k][1] = self.initials.S_initial
    /\ \A k \in 1..(Len(y_n) - 1) : RLe(y_n[k + 1][2], y_n[k][2])

\* C10.  With every rate 0, for any non-negative S0, I0, R0 of positive sum
\* and any positive recovery rate mu, the trajectory of _generate_SIR keeps
\* S at S0 and has I[i+1] <= I[i] at every step.
C10_ZeroRateAnyMu ==
    (/\ last.kind = "_generate_SIR"
     /\ last.out.kind = "return"
     /\ AllZero(dd[last.obj].lambda_t.val))
    => SConstantINonIncreasing(dd[last.obj], last.out.val.y_n)

\* Every rate of the sequence is positive.
AllPositive(rates) == \A k \in 1..Len(rates) : RSign(rates[k]) > 0

\* S + I + R of one state of the trajectory.
Population(y) == RAdd(RAdd(y[1], y[2]), y[3])

\* C11.  For any positive rate sequence and any positive mu, S + I + R
\* equals N = S_initial + I_initial + R_initial at every step of the
\* trajectory returned by _generate_SIR (exact arithmetic): the increments
\* an RK4 step adds to S, I and R sum to zero.
C11_PopulationConserved ==
    (/\ last.kind = "_generate_SIR"
     /\ last.out.kind = "return"
     /\ AllPositive(dd[last.obj].lambda_t.val))
    => LET y_n == last.out.val.y_n
           N   == Population(<<dd[last.obj].initials.S_initial,
                               dd[last.obj].initials.I_initial,
                               dd[last.obj].initials.R_initial>>)
       IN  /\ \A k \in 1..Len(y_n) : Population(y_n[k]) = N
           /\ \A k \in 1..(Len(y_n) - 1) :
                  Population([j \in 1..3 |-> RSub(y_n[k + 1][j], y_n[k][j])]) = R(0)

\* A step at a positive rate in which people are infected and recover: S
\* falls and R rises.
C11_Witness ==
    /\ last.kind = "_generate_SIR"
    /\ last.out.kind = "return"
    /\ AllPositive(dd[last.obj].lambda_t.val)
    /\ Len(last.out.val.y_n) >= 2
    /\ RLt(last.out.val.y_n[2][1], dd[last.obj].initials.S_initial)
    /\ RLt(dd[last.obj].initials.R_initial, last.out.val.y_n[2][3])

============================================================================
